---- MODULE Spec2Model ----
(***************************************************************************)
(* Model of the AIMED medicine / supplement interaction checker:           *)
(* the POST /mix, /compare and /predict-interactions handlers of           *)
(* server/src/index.js and server/scripts/migrate.js, the browser flow of  *)
(* frontend/src/MixCheckPage.jsx, the prediction batch script, and the     *)
(* ingestion scripts that write the products / interactions tables.        *)
(***************************************************************************)
EXTENDS Integers, Sequences, FiniteSets, TLC

VARIABLES
    products,       \* products table, in the order the store returns rows; id = position
    interactions,   \* interactions table: set of rows [product_id_1, product_id_2, severity]
    phase,          \* what the last step was
    req,            \* the last request: [route, items, fault]
    resp,           \* its response: [interactions, resolved, error]
    storeLog,       \* the store operations the last request issued, in order
    predictCalled,  \* the browser went on to POST /predict-interactions
    pMode,          \* batch prediction: "handler" (POST /predict-interactions) or "script"
    pc,             \* its position: "idle", "loop", "sleep", "save", "done"
    pItems,         \* the names (handler) or product ids (script) whose pairs are evaluated
    pi,             \* outer loop index i
    pj,             \* inner loop index j
    pOut,           \* the `interactions` array built so far
    pLog,           \* the external model calls made so far: [i, j, reply]
    pLast,          \* what the batch did last: "none", "call" (external call) or "sleep"
    pResp,          \* the handler's reply: [interactions, error]
    stored0,        \* the interactions table as it was when the batch started
    wJobs,          \* per writer, the rows its load loop goes through
    wIdx,           \* per writer, the index of the row at hand
    wPc,            \* per writer: "check", "insert" or "done"
    wStats,         \* per writer: [loaded, skipped, errors]
    tProducts,      \* DSLD table products: the set of dsld_id (primary key)
    tFacts,         \* DSLD table supplement_facts: the dsld_id of each row, in insertion order
    iSrc,           \* the data directory: [products, facts], each the DSLD ID column of a file
    iRun,           \* which run of the tabular import this is (1 or 2)
    iTable,         \* index into TABLES of the table being ingested
    iPos,           \* next record of the table's file
    iBuf,           \* ingestFile's `rows`
    iPc,            \* "off", "run", "done", "aborted"
    iProcessed,     \* records read by this run
    iAfter1,        \* row counts <<products, supplement_facts>> when the first run ended
    callee,         \* the pure function under evaluation
    arg,            \* the value it was first given
    result,         \* what its last application returned
    calls,          \* how many times it has been applied
    fScript,        \* paginated import: "dsld" or "openfda"
    fPc,            \* its position: "off", "fetch", "load", "done", "aborted"
    fPage,          \* pageNum (DSLD) or skip (OpenFDA)
    fTotal,         \* totalFetched
    fCalls,         \* page requests issued so far
    fLast           \* what the last page request brought back

mixVars == <<products, interactions, phase, req, resp, storeLog, predictCalled>>

predictVars == <<pMode, pc, pItems, pi, pj, pOut, pLog, pLast, pResp, stored0>>

writerVars == <<wJobs, wIdx, wPc, wStats>>

ingestVars == <<tProducts, tFacts, iSrc, iRun, iTable, iPos, iBuf, iPc, iProcessed, iAfter1>>

pureVars == <<callee, arg, result, calls>>

fetchVars == <<fScript, fPc, fPage, fTotal, fCalls, fLast>>

vars == <<mixVars, predictVars, writerVars, ingestVars, pureVars, fetchVars>>

(***************************************************************************)
(* Bounds of the model.                                                    *)
(***************************************************************************)
MaxProducts == 2
MaxItems == 2

MaxRows == 3

BatchSize == 2

MaxLen == 3

(***************************************************************************)
(* Strings are sequences of characters; JavaScript's string operations     *)
(* are modelled by what they do.                                           *)
(***************************************************************************)
\* a keyword of the safety heuristic is one element of the sequence, lower-cased as a whole
LowerChar(c) ==
    IF c = "A" THEN "a" ELSE IF c = "B" THEN "b" ELSE IF c = "Warfarin" THEN "warfarin"
    ELSE IF c = "Avoid" THEN "avoid" ELSE IF c = "SEVERE" THEN "severe" ELSE c

toLowerCase(s) == [i \in 1..Len(s) |-> LowerChar(s[i])]

RECURSIVE trimStart(_)
trimStart(s) == IF s # <<>> /\ Head(s) = " " THEN trimStart(Tail(s)) ELSE s

RECURSIVE trimEnd(_)
trimEnd(s) ==
    IF s # <<>> /\ s[Len(s)] = " " THEN trimEnd(SubSeq(s, 1, Len(s) - 1)) ELSE s

trim(s) == trimEnd(trimStart(s))

includes(hay, needle) ==
    \E i \in 0..(Len(hay) - Len(needle)) : SubSeq(hay, i + 1, i + Len(needle)) = needle

startsWith(hay, prefix) ==
    Len(prefix) <= Len(hay) /\ SubSeq(hay, 1, Len(prefix)) = prefix

\* items.map(i => String(i).trim()).filter(Boolean)
cleanItems(items) == SelectSeq([i \in 1..Len(items) |-> trim(items[i])], LAMBDA s : s # <<>>)

\* code-point order of the characters, for ORDER BY name / .order('name')
CharCode(c) ==
    IF c = " " THEN 32 ELSE IF c = "A" THEN 65 ELSE IF c = "B" THEN 66
    ELSE IF c = "a" THEN 97 ELSE IF c = "b" THEN 98 ELSE 99

RECURSIVE NameLess(_, _)
NameLess(s, t) ==
    IF t = <<>> THEN FALSE
    ELSE IF s = <<>> THEN TRUE
    ELSE IF CharCode(Head(s)) # CharCode(Head(t)) THEN CharCode(Head(s)) < CharCode(Head(t))
    ELSE NameLess(Tail(s), Tail(t))

(***************************************************************************)
(* The catalog.                                                            *)
(***************************************************************************)
ProductUniverse ==
    { [name |-> <<"a">>,      generic_name |-> <<>>],
      [name |-> <<"A">>,      generic_name |-> <<>>],
      [name |-> <<"a", "b">>, generic_name |-> <<>>],
      [name |-> <<"b">>,      generic_name |-> <<"c">>] }

InputUniverse == { <<"a">>, <<"b">>, <<"c">>, <<" ">> }

\* severity VARCHAR(20) NOT NULL CHECK (severity IN (...))
SchemaSeverities == {"mild", "moderate", "severe", "contraindicated"}

Severities == {"moderate", "severe"}

NoError == "ok"

RECURSIVE SeqsUpTo(_, _)
SeqsUpTo(S, n) ==
    IF n = 0 THEN {<<>>}
    ELSE LET shorter == SeqsUpTo(S, n - 1)
         IN  shorter \cup {Append(q, x) : q \in {r \in shorter : Len(r) = n - 1}, x \in S}

\* products.name is UNIQUE (case-sensitive); ids are BIGSERIAL
Catalogs ==
    { [i \in 1..Len(q) |-> [id |-> i, name |-> q[i].name, generic_name |-> q[i].generic_name]] :
        q \in {r \in SeqsUpTo(ProductUniverse, MaxProducts) :
                 \A i, j \in 1..Len(r) : i # j => r[i].name # r[j].name} }

Rows(n) == [product_id_1 : 1..n, product_id_2 : 1..n, severity : Severities]

ItemLists == SeqsUpTo(InputUniverse, MaxItems)

EmptyResp == [interactions |-> {}, resolved |-> <<>>, error |-> NoError]

IdleReq == [route |-> "none", items |-> <<>>, fault |-> "none"]

ProductById(id) == products[id]

\* Array.prototype.find over the test results: index of the first hit, 0 if none
FindIndex(hit) ==
    IF \E i \in 1..Len(hit) : hit[i]
    THEN CHOOSE i \in 1..Len(hit) : hit[i] /\ \A j \in 1..(i - 1) : ~hit[j]
    ELSE 0

\* a lookup that assumes the pair is stored with the smaller id first
LookupRowsOrdered(ids) ==
    {r \in interactions :
        r.product_id_1 \in ids /\ r.product_id_2 \in ids /\ r.product_id_1 < r.product_id_2}

\* the interaction lookup: .in('product_id_1', ids).in('product_id_2', ids), joined to products
LookupRows(ids) == {r \in interactions : r.product_id_1 \in ids /\ r.product_id_2 \in ids}

FormatRow(r) ==
    [ingredient_a |-> ProductById(r.product_id_1).name,
     ingredient_b |-> ProductById(r.product_id_2).name,
     severity |-> r.severity]

Range(s) == {s[i] : i \in 1..Len(s)}

Writers == {1, 2}

PredictIdle ==
    /\ pMode = "none"
    /\ pc = "idle"
    /\ pItems = <<>>
    /\ pi = 0
    /\ pj = 0
    /\ pOut = <<>>
    /\ pLog = <<>>
    /\ pLast = "none"
    /\ pResp = [interactions |-> <<>>, error |-> NoError]
    /\ stored0 = interactions

PureIdle ==
    /\ callee = "none"
    /\ arg = <<>>
    /\ result = <<>>
    /\ calls = 0

FetchIdle ==
    /\ fScript = "none"
    /\ fPc = "off"
    /\ fPage = 0
    /\ fTotal = 0
    /\ fCalls = 0
    /\ fLast = "none"

IngestIdle ==
    /\ tProducts = {}
    /\ tFacts = <<>>
    /\ iSrc = [products |-> <<>>, facts |-> <<>>]
    /\ iRun = 1
    /\ iTable = 1
    /\ iPos = 1
    /\ iBuf = <<>>
    /\ iPc = "off"
    /\ iProcessed = 0
    /\ iAfter1 = <<0, 0>>

WritersIdle ==
    /\ wJobs = [w \in Writers |-> <<>>]
    /\ wIdx = [w \in Writers |-> 1]
    /\ wPc = [w \in Writers |-> "done"]
    /\ wStats = [w \in Writers |-> [loaded |-> 0, skipped |-> 0, errors |-> 0]]

(***************************************************************************)
(* POST /mix, Supabase variant (server/src/index.js 980-1063).             *)
(***************************************************************************)
SupabaseMatch(inputItem) ==
    LET inputLower == toLowerCase(inputItem)
    IN  FindIndex([i \in 1..Len(products) |->
            \/ includes(toLowerCase(products[i].name), inputLower)
            \/ (products[i].generic_name # <<>>
                 /\ includes(toLowerCase(products[i].generic_name), inputLower))])

SupabaseResolve(inputItem) ==
    LET m == SupabaseMatch(inputItem)
    IN  IF m # 0 THEN [input |-> inputItem, type |-> "product", product |-> m]
        ELSE [input |-> inputItem, type |-> "ingredient", product |-> 0]

SupabaseMixResponse(items, fault) ==
    LET clean == cleanItems(items)
        resolved == [i \in 1..Len(clean) |-> SupabaseResolve(clean[i])]
        matchedProducts == SelectSeq(resolved, LAMBDA r : r.type = "product")
        productIds == {matchedProducts[i].product : i \in 1..Len(matchedProducts)}
        issue == Len(matchedProducts) >= 2
        found == IF issue /\ fault # "inter" THEN {FormatRow(r) : r \in LookupRows(productIds)} ELSE {}
    IN  IF Len(items) = 0 \/ Len(clean) = 0
        THEN [resp |-> EmptyResp, log |-> <<>>]
        ELSE IF fault = "fetch"
        THEN [resp |-> [interactions |-> {}, resolved |-> <<>>, error |-> "database_unavailable"],
              log |-> <<"select products">>]
        ELSE [resp |-> [interactions |-> found, resolved |-> resolved, error |-> NoError],
              log |-> IF issue THEN <<"select products", "select interactions">>
                      ELSE <<"select products">>]

\* a handler that also records what it looked up
PostMixSupabaseStoring ==
    /\ phase = "idle"
    /\ \E items \in ItemLists :
        LET out == SupabaseMixResponse(items, "none")
        IN  /\ req' = [route |-> "mix_supabase", items |-> items, fault |-> "none"]
            /\ resp' = out.resp
            /\ storeLog' = out.log
            /\ interactions' = interactions \cup
                    {[product_id_1 |-> k, product_id_2 |-> k, severity |-> "moderate"] :
                        k \in {out.resp.resolved[i].product : i \in 1..Len(out.resp.resolved)} \ {0}}
    /\ phase' = "mixed"
    /\ UNCHANGED <<pureVars, fetchVars, ingestVars, products, predictCalled, predictVars, writerVars>>

PostMixSupabase ==
    /\ phase = "idle"
    /\ \E items \in ItemLists, fault \in {"none", "fetch", "inter"} :
        LET out == SupabaseMixResponse(items, fault)
        IN  /\ req' = [route |-> "mix_supabase", items |-> items, fault |-> fault]
            /\ resp' = out.resp
            /\ storeLog' = out.log
    /\ phase' = "mixed"
    /\ UNCHANGED <<pureVars, fetchVars, ingestVars, products, interactions, predictCalled, predictVars, writerVars>>

(***************************************************************************)
(* POST /mix, prefix-match variant (server/scripts/migrate.js 119-207).    *)
(***************************************************************************)
\* .or(cleanItems.map(item => `name.ilike.${item}%`)): rows whose name starts with an item
MigrateProductRows(clean) ==
    {p \in Range(products) :
        \E i \in 1..Len(clean) : startsWith(toLowerCase(p.name), toLowerCase(clean[i]))}

\* productMap.set(p.name.toLowerCase(), p) over rows ordered by name: the last row wins
MigrateProductMap(rows, key) ==
    LET hits == {p \in rows : toLowerCase(p.name) = key}
    IN  IF hits = {} THEN 0
        ELSE (CHOOSE p \in hits : \A q \in hits : q = p \/ NameLess(q.name, p.name)).id

MigrateResolve(rows, input) ==
    LET m == MigrateProductMap(rows, toLowerCase(input))
    IN  IF m # 0 THEN [input |-> input, type |-> "product", product |-> m]
        ELSE [input |-> input, type |-> "ingredient", product |-> 0]

MigrateMixResponse(items, fault) ==
    LET clean == cleanItems(items)
        productRows == MigrateProductRows(clean)
        resolved == [i \in 1..Len(clean) |-> MigrateResolve(productRows, clean[i])]
        productIds == {p.id : p \in productRows}
        issue == Cardinality(productRows) >= 2
        found == IF issue /\ fault # "inter" THEN {FormatRow(r) : r \in LookupRows(productIds)} ELSE {}
    IN  IF Len(items) = 0 \/ Len(clean) = 0
        THEN [resp |-> EmptyResp, log |-> <<>>]
        ELSE IF fault = "fetch"
        THEN [resp |-> [interactions |-> {}, resolved |-> <<>>, error |-> "database_unavailable"],
              log |-> <<"select products">>]
        ELSE [resp |-> [interactions |-> found, resolved |-> resolved, error |-> NoError],
              log |-> IF issue THEN <<"select products", "select interactions">>
                      ELSE <<"select products">>]

PostMixMigrate ==
    /\ phase = "idle"
    /\ \E items \in ItemLists, fault \in {"none", "fetch", "inter"} :
        LET out == MigrateMixResponse(items, fault)
        IN  /\ req' = [route |-> "mix_migrate", items |-> items, fault |-> fault]
            /\ resp' = out.resp
            /\ storeLog' = out.log
    /\ phase' = "mixed"
    /\ UNCHANGED <<pureVars, fetchVars, ingestVars, products, interactions, predictCalled, predictVars, writerVars>>

(***************************************************************************)
(* POST /mix, pg variant (server/src/index.js 84-137).                     *)
(***************************************************************************)
\* WHERE LOWER(name) ILIKE $1 ORDER BY name LIMIT 1, with $1 = input.toLowerCase()
PgMatch(input) ==
    LET hits == {p \in Range(products) : toLowerCase(p.name) = toLowerCase(input)}
    IN  IF hits = {} THEN 0
        ELSE (CHOOSE p \in hits : \A q \in hits : q = p \/ NameLess(p.name, q.name)).id

PgResolve(input) ==
    LET m == PgMatch(input)
    IN  IF m # 0 THEN [input |-> input, type |-> "product", product |-> m]
        ELSE [input |-> input, type |-> "ingredient", product |-> 0]

\* client.query rejects and nothing catches it: the framework answers 500 with the message
Thrown == [interactions |-> {}, resolved |-> <<>>, error |-> "internal_server_error"]

PgMixResponse(items, fault) ==
    LET clean == cleanItems(items)
    IN  IF fault = "down"
        THEN [resp |-> [interactions |-> {}, resolved |-> <<>>, error |-> "database_unavailable"],
              log |-> <<>>]
        ELSE IF Len(items) = 0 THEN [resp |-> EmptyResp, log |-> <<>>]
        ELSE IF fault = "query" /\ Len(clean) > 0
        THEN [resp |-> Thrown, log |-> <<"select products">>]
        ELSE [resp |-> [interactions |-> {},
                        resolved |-> [i \in 1..Len(clean) |-> PgResolve(clean[i])],
                        error |-> NoError],
              log |-> [i \in 1..Len(clean) |-> "select products"]]

PostMixPg ==
    /\ phase = "idle"
    /\ \E items \in ItemLists, fault \in {"none", "down", "query"} :
        LET out == PgMixResponse(items, fault)
        IN  /\ req' = [route |-> "mix_pg", items |-> items, fault |-> fault]
            /\ resp' = out.resp
            /\ storeLog' = out.log
    /\ phase' = "mixed"
    /\ UNCHANGED <<pureVars, fetchVars, ingestVars, products, interactions, predictCalled, predictVars, writerVars>>

(***************************************************************************)
(* POST /mix, DSLD variant (server/src/index.js 602-682).  Its catalog is  *)
(* read off the same rows: product_name is the row's name, and a product   *)
(* with a generic name has one supplement_facts row naming it as its       *)
(* ingredient; an interaction row between two such products is the         *)
(* ingredient-keyed row between their ingredients.                         *)
(***************************************************************************)
\* SELECT ingredient FROM supplement_facts WHERE dsld_id = $1, .filter(Boolean)
DsldIngredients(id) ==
    IF ProductById(id).generic_name # <<>> THEN {ProductById(id).generic_name} ELSE {}

\* SELECT DISTINCT ingredient ... WHERE ingredient ILIKE $1 ORDER BY ingredient LIMIT 1
DsldIngredientMatch(input) ==
    LET hits == {g \in UNION {DsldIngredients(k) : k \in 1..Len(products)} :
                    toLowerCase(g) = toLowerCase(input)}
    IN  IF hits = {} THEN <<>>
        ELSE CHOOSE g \in hits : \A h \in hits : h = g \/ NameLess(g, h)

\* WHERE product_name ILIKE $1 ORDER BY product_name LIMIT 1, then the ingredient query
DsldResolve(input) ==
    LET m == PgMatch(input)
    IN  IF m # 0 THEN [input |-> input, type |-> "product", product |-> m]
        ELSE IF DsldIngredientMatch(input) # <<>>
        THEN [input |-> input, type |-> "ingredient", product |-> 0]
        ELSE [input |-> input, type |-> "unknown", product |-> 0]

\* what one resolved item adds to ingredientSet
DsldIngredientSet(rec) ==
    IF rec.type = "product" THEN {toLowerCase(g) : g \in DsldIngredients(rec.product)}
    ELSE IF rec.type = "ingredient" THEN {toLowerCase(DsldIngredientMatch(rec.input))}
    ELSE {}

\* WHERE ingredient_a = ANY($1) AND ingredient_b = ANY($1)
DsldLookupRows(ingredients) ==
    {[ingredient_a |-> ProductById(r.product_id_1).generic_name,
      ingredient_b |-> ProductById(r.product_id_2).generic_name,
      severity |-> r.severity] :
        r \in {x \in interactions :
                 /\ ProductById(x.product_id_1).generic_name \in ingredients
                 /\ ProductById(x.product_id_2).generic_name \in ingredients}}

DsldMixResponse(items, fault) ==
    LET clean == cleanItems(items)
        resolved == [i \in 1..Len(clean) |-> DsldResolve(clean[i])]
        ingredients == UNION {DsldIngredientSet(resolved[i]) : i \in 1..Len(resolved)}
        queries == [i \in 1..Len(clean) |-> "select products"]
    IN  IF fault = "down"
        THEN [resp |-> [interactions |-> {}, resolved |-> <<>>, error |-> "database_unavailable"],
              log |-> <<>>]
        ELSE IF Len(items) = 0 THEN [resp |-> EmptyResp, log |-> <<>>]
        ELSE IF fault = "query" /\ Len(clean) > 0
        THEN [resp |-> Thrown, log |-> <<"select products">>]
        ELSE IF ingredients = {}
        THEN [resp |-> [interactions |-> {}, resolved |-> resolved, error |-> NoError],
              log |-> queries]
        ELSE [resp |-> [interactions |-> DsldLookupRows(ingredients), resolved |-> resolved,
                        error |-> NoError],
              log |-> Append(queries, "select interactions")]

PostMixDsld ==
    /\ phase = "idle"
    /\ \E items \in ItemLists, fault \in {"none", "down", "query"} :
        LET out == DsldMixResponse(items, fault)
        IN  /\ req' = [route |-> "mix_dsld", items |-> items, fault |-> fault]
            /\ resp' = out.resp
            /\ storeLog' = out.log
    /\ phase' = "mixed"
    /\ UNCHANGED <<pureVars, fetchVars, ingestVars, products, interactions, predictCalled, predictVars, writerVars>>

(***************************************************************************)
(* The browser's handleCheckInteractions (frontend/src/MixCheckPage.jsx    *)
(* 165-221): POST /mix first, POST /predict-interactions when the reply    *)
(* carries no error and no interactions.                                   *)
(***************************************************************************)
\* addMixItem keeps selectedItems trimmed, non-blank and free of exact repeats
FrontendSelection(items) ==
    /\ Len(items) >= 2
    /\ \A i \in 1..Len(items) : trim(items[i]) = items[i] /\ items[i] # <<>>
    /\ \A i, j \in 1..Len(items) : i # j => items[i] # items[j]

FrontendFallsBack(r) == r.error = NoError /\ r.interactions = {}

FrontendAfterMix ==
    /\ phase = "mixed"
    /\ FrontendSelection(req.items)
    /\ predictCalled' = FrontendFallsBack(resp)
    /\ phase' = "shown"
    /\ UNCHANGED <<pureVars, fetchVars, ingestVars, products, interactions, req, resp, storeLog, predictVars, writerVars>>

(***************************************************************************)
(* POST /compare, Supabase variant (server/src/index.js 1065-1141) and pg  *)
(* variant (server/src/index.js 139-181).                                  *)
(***************************************************************************)
RECURSIVE SortByName(_)
SortByName(rows) ==
    IF rows = {} THEN <<>>
    ELSE LET first == CHOOSE p \in rows : \A q \in rows : q = p \/ NameLess(p.name, q.name)
         IN  <<first>> \o SortByName(rows \ {first})

CompareError(code, log) == [resp |-> [comparison |-> <<>>, error |-> code], log |-> log]

SupabaseCompareResponse(productNames, fault) ==
    LET cleanNames == cleanItems(productNames)
        \* .or(cleanNames.map(name => `name.ilike.%${name}%`)).order('name')
        productRows == SortByName({p \in Range(products) :
            \E i \in 1..Len(cleanNames) : includes(toLowerCase(p.name), toLowerCase(cleanNames[i]))})
        matchOf(inputName) == FindIndex([i \in 1..Len(productRows) |->
            \/ includes(toLowerCase(productRows[i].name), toLowerCase(inputName))
            \/ (productRows[i].generic_name # <<>>
                 /\ includes(toLowerCase(productRows[i].generic_name), toLowerCase(inputName)))])
        hits == SelectSeq(cleanNames, LAMBDA n : matchOf(n) # 0)
        foundProducts == [i \in 1..Len(hits) |-> productRows[matchOf(hits[i])].id]
    IN  IF Len(productNames) < 2 THEN CompareError("at_least_two_products_required", <<>>)
        ELSE IF Len(cleanNames) < 2 THEN CompareError("at_least_two_products_required", <<>>)
        ELSE IF fault = "fetch" THEN CompareError("database_unavailable", <<"select products">>)
        ELSE IF productRows = <<>> THEN CompareError("no_products_found", <<"select products">>)
        ELSE IF Len(foundProducts) > 0
        THEN [resp |-> [comparison |-> <<foundProducts>>, error |-> NoError],
              log |-> <<"select products">>]
        ELSE CompareError("no_matching_products", <<"select products">>)

PostCompareSupabase ==
    /\ phase = "idle"
    /\ \E productNames \in ItemLists, fault \in {"none", "fetch"} :
        LET out == SupabaseCompareResponse(productNames, fault)
        IN  /\ req' = [route |-> "compare_supabase", items |-> productNames, fault |-> fault]
            /\ resp' = out.resp
            /\ storeLog' = out.log
    /\ phase' = "compared"
    /\ UNCHANGED <<pureVars, fetchVars, ingestVars, products, interactions, predictCalled, predictVars, writerVars>>

PgCompareResponse(productNames, fault) ==
    LET trimmed == cleanItems(productNames)
        hits == SelectSeq(trimmed, LAMBDA n : PgMatch(n) # 0)
        productDetails == [i \in 1..Len(hits) |-> PgMatch(hits[i])]
    IN  IF fault = "down" THEN CompareError("database_unavailable", <<>>)
        ELSE IF Len(productNames) < 2 THEN CompareError("at_least_two_products_required", <<>>)
        ELSE IF fault = "query" /\ Len(trimmed) > 0
        THEN CompareError("internal_server_error", <<"select products">>)
        ELSE [resp |-> [comparison |-> <<productDetails>>, error |-> NoError],
              log |-> [i \in 1..Len(trimmed) |-> "select products"]]

PostComparePg ==
    /\ phase = "idle"
    /\ \E productNames \in ItemLists, fault \in {"none", "down", "query"} :
        LET out == PgCompareResponse(productNames, fault)
        IN  /\ req' = [route |-> "compare_pg", items |-> productNames, fault |-> fault]
            /\ resp' = out.resp
            /\ storeLog' = out.log
    /\ phase' = "compared"
    /\ UNCHANGED <<pureVars, fetchVars, ingestVars, products, interactions, predictCalled, predictVars, writerVars>>

(***************************************************************************)
(* GET /products and GET /ingredients, Supabase variant (server/src/       *)
(* index.js 930-978) and pg variant (42-82).                               *)
(***************************************************************************)
Limits == {1, 20}

Queries == InputUniverse \cup {<<>>}

Take(rows, limit) == SubSeq(rows, 1, IF Len(rows) < limit THEN Len(rows) ELSE limit)

\* SELECT ... FROM products [WHERE name ILIKE %q%] ORDER BY name LIMIT limit
ProductItems(q, limit) ==
    LET rows == SortByName({p \in Range(products) :
                    q = <<>> \/ includes(toLowerCase(p.name), toLowerCase(q))})
    IN  Take([i \in 1..Len(rows) |-> rows[i].id], limit)

RECURSIVE SortStrings(_)
SortStrings(S) ==
    IF S = {} THEN <<>>
    ELSE LET first == CHOOSE g \in S : \A h \in S : h = g \/ NameLess(g, h)
         IN  <<first>> \o SortStrings(S \ {first})

\* SELECT ingredient FROM supplement_facts WHERE ingredient ILIKE %q% ORDER BY ingredient
\* LIMIT 20, without repeats
IngredientItems(q) ==
    Take(SortStrings({g \in UNION {DsldIngredients(k) : k \in 1..Len(products)} :
                        includes(toLowerCase(g), toLowerCase(q))}), 20)

ListResp(items, code, log) == [resp |-> [items |-> items, error |-> code], log |-> log]

SupabaseProductsResponse(q, limit, fault) ==
    IF fault = "fetch" THEN ListResp(<<>>, "database_unavailable", <<"select products">>)
    ELSE ListResp(ProductItems(trim(q), limit), NoError, <<"select products">>)

PgProductsResponse(q, limit, fault) ==
    IF fault = "down" THEN ListResp(<<>>, "database_unavailable", <<>>)
    ELSE IF fault = "query" THEN ListResp(<<>>, "internal_server_error", <<"select products">>)
    ELSE ListResp(ProductItems(trim(q), limit), NoError, <<"select products">>)

SupabaseIngredientsResponse(q, fault) ==
    IF trim(q) = <<>> THEN ListResp(<<>>, NoError, <<>>)
    ELSE IF fault = "fetch"
    THEN ListResp(<<>>, "database_unavailable", <<"select supplement_facts">>)
    ELSE ListResp(IngredientItems(trim(q)), NoError, <<"select supplement_facts">>)

PgIngredientsResponse(q, fault) ==
    IF fault = "down" THEN ListResp(<<>>, "database_unavailable", <<>>)
    ELSE IF trim(q) = <<>> THEN ListResp(<<>>, NoError, <<>>)
    ELSE IF fault = "query"
    THEN ListResp(<<>>, "internal_server_error", <<"select supplement_facts">>)
    ELSE ListResp(IngredientItems(trim(q)), NoError, <<"select supplement_facts">>)

GetProductsSupabase ==
    /\ phase = "idle"
    /\ \E q \in Queries, limit \in Limits, fault \in {"none", "fetch"} :
        LET out == SupabaseProductsResponse(q, limit, fault)
        IN  /\ req' = [route |-> "products_supabase", items |-> <<q>>, fault |-> fault]
            /\ resp' = out.resp
            /\ storeLog' = out.log
    /\ phase' = "listed"
    /\ UNCHANGED <<pureVars, fetchVars, ingestVars, products, interactions, predictCalled,
                   predictVars, writerVars>>

GetProductsPg ==
    /\ phase = "idle"
    /\ \E q \in Queries, limit \in Limits, fault \in {"none", "down", "query"} :
        LET out == PgProductsResponse(q, limit, fault)
        IN  /\ req' = [route |-> "products_pg", items |-> <<q>>, fault |-> fault]
            /\ resp' = out.resp
            /\ storeLog' = out.log
    /\ phase' = "listed"
    /\ UNCHANGED <<pureVars, fetchVars, ingestVars, products, interactions, predictCalled,
                   predictVars, writerVars>>

GetIngredientsSupabase ==
    /\ phase = "idle"
    /\ \E q \in Queries, fault \in {"none", "fetch"} :
        LET out == SupabaseIngredientsResponse(q, fault)
        IN  /\ req' = [route |-> "ingredients_supabase", items |-> <<q>>, fault |-> fault]
            /\ resp' = out.resp
            /\ storeLog' = out.log
    /\ phase' = "listed"
    /\ UNCHANGED <<pureVars, fetchVars, ingestVars, products, interactions, predictCalled,
                   predictVars, writerVars>>

GetIngredientsPg ==
    /\ phase = "idle"
    /\ \E q \in Queries, fault \in {"none", "down", "query"} :
        LET out == PgIngredientsResponse(q, fault)
        IN  /\ req' = [route |-> "ingredients_pg", items |-> <<q>>, fault |-> fault]
            /\ resp' = out.resp
            /\ storeLog' = out.log
    /\ phase' = "listed"
    /\ UNCHANGED <<pureVars, fetchVars, ingestVars, products, interactions, predictCalled,
                   predictVars, writerVars>>

\* the reply has been delivered; the handlers keep no state between requests
Respond ==
    /\ phase \in {"mixed", "shown", "compared", "listed"}
    /\ phase' = "idle"
    /\ req' = IdleReq
    /\ resp' = EmptyResp
    /\ storeLog' = <<>>
    /\ predictCalled' = FALSE
    /\ UNCHANGED <<pureVars, fetchVars, ingestVars, products, interactions, predictVars, writerVars>>

InitMix ==
    /\ products \in Catalogs
    /\ interactions \in {{}} \cup {{r} : r \in Rows(Len(products))}
    /\ phase = "idle"
    /\ req = IdleReq
    /\ resp = EmptyResp
    /\ storeLog = <<>>
    /\ predictCalled = FALSE
    /\ PredictIdle
    /\ PureIdle
    /\ FetchIdle
    /\ WritersIdle
    /\ IngestIdle

NextMix ==
    \/ PostMixSupabase
    \/ PostMixMigrate
    \/ PostMixPg
    \/ PostMixDsld
    \/ GetProductsSupabase
    \/ GetProductsPg
    \/ GetIngredientsSupabase
    \/ GetIngredientsPg
    \/ FrontendAfterMix
    \/ PostCompareSupabase
    \/ PostComparePg
    \/ Respond

SpecMix == InitMix /\ [][NextMix]_vars

(***************************************************************************)
(* The interactions table as a writer sees it (unnamed/part_001 27-41).    *)
(***************************************************************************)
\* .or(and(product_id_1.eq.a,product_id_2.eq.b),and(product_id_1.eq.b,product_id_2.eq.a))
interactionExists(productId1, productId2) ==
    \E r \in interactions :
        \/ (r.product_id_1 = productId1 /\ r.product_id_2 = productId2)
        \/ (r.product_id_1 = productId2 /\ r.product_id_2 = productId1)

\* the insert is rejected by UNIQUE(product_id_1, product_id_2), the severity CHECK / NOT NULL
\* or the foreign keys
InsertAccepted(row) ==
    /\ ~\E r \in interactions :
            r.product_id_1 = row.product_id_1 /\ r.product_id_2 = row.product_id_2
    /\ row.severity \in SchemaSeverities
    /\ {row.product_id_1, row.product_id_2} \subseteq {products[k].id : k \in 1..Len(products)}

(***************************************************************************)
(* The load loops of the writers: loadInteractions of the DrugBank and     *)
(* RxNorm loaders (unnamed/part_002 227-270, 537-580) and the save loop of *)
(* predict_interactions_k2.js (217-242): check, then insert.               *)
(***************************************************************************)
Bump(stats, w, field) == [stats EXCEPT ![w][field] = @ + 1]

WriterAdvance(w) ==
    /\ wIdx' = [wIdx EXCEPT ![w] = @ + 1]
    /\ wPc' = [wPc EXCEPT ![w] = IF wIdx[w] + 1 > Len(wJobs[w]) THEN "done" ELSE "check"]

WriterCheck(w) ==
    /\ wPc[w] = "check"
    /\ LET row == wJobs[w][wIdx[w]]
       IN  IF interactionExists(row.product_id_1, row.product_id_2)
           THEN /\ wStats' = Bump(wStats, w, "skipped")
                /\ WriterAdvance(w)
           ELSE /\ wPc' = [wPc EXCEPT ![w] = "insert"]
                /\ UNCHANGED <<wIdx, wStats>>
    /\ UNCHANGED <<pureVars, fetchVars, ingestVars, mixVars, predictVars, wJobs>>

WriterInsert(w) ==
    /\ wPc[w] = "insert"
    /\ LET row == wJobs[w][wIdx[w]]
       IN  IF InsertAccepted(row)
           THEN /\ interactions' = interactions \cup {row}
                /\ wStats' = Bump(wStats, w, "loaded")
           ELSE /\ wStats' = Bump(wStats, w, "errors")
                /\ UNCHANGED interactions
    /\ WriterAdvance(w)
    /\ UNCHANGED <<pureVars, fetchVars, ingestVars, products, phase, req, resp, storeLog, predictCalled, predictVars, wJobs>>

(***************************************************************************)
(* Batch prediction: POST /predict-interactions (server/src/index.js       *)
(* 1143-1321) and predict_interactions_k2.js.                              *)
(***************************************************************************)
Failure(kind) == [kind |-> kind, has_interaction |-> FALSE, severity |-> "absent"]

Json(has, sev) == [kind |-> "json", has_interaction |-> has, severity |-> sev]

\* what the external model call can come back with
Replies ==
    { Failure("network_error"), Failure("timeout"), Failure("no_content"), Failure("bad_json"),
      Json(FALSE, "none"), Json(TRUE, "none"), Json(FALSE, "mild"), Json(TRUE, "mild") }

PredictBatches == ItemLists \cup { <<<<"a">>, <<"b">>, <<"c">>>>, <<<<"a">>, <<" ">>, <<"b">>, <<"c">>>> }

\* a handler without the try/catch around the pair: a failed call leaves the loop
PairRaisesUncaught(reply) == reply.kind \in {"network_error", "timeout"}

\* every failure of one pair is caught inside the pair's own try (index.js 1198 / 1310,
\* predict_interactions_k2.js 45 / 121)
PairRaises(reply) == FALSE

\* index.js 1246-1309: what one pair adds to the handler's `interactions`
HandlerEntries(item1, item2, reply) ==
    IF reply.kind # "json" \/ reply.severity = "absent" THEN <<>>
    ELSE <<[ingredient_a |-> item1, ingredient_b |-> item2, severity |-> reply.severity]>>

\* a predictInteraction that returns the record whatever the model said
ScriptEntriesUnfiltered(product1, product2, reply) ==
    IF reply.kind # "json" THEN <<>>
    ELSE <<[product_id_1 |-> product1, product_id_2 |-> product2, severity |-> reply.severity]>>

\* predictInteraction (predict_interactions_k2.js 93-124), as pushed by main (191-195)
ScriptEntries(product1, product2, reply) ==
    IF reply.kind # "json" THEN <<>>
    ELSE IF ~reply.has_interaction \/ reply.severity = "none" THEN <<>>
    ELSE <<[product_id_1 |-> product1, product_id_2 |-> product2, severity |-> reply.severity]>>

\* for (i ...) for (j = i + 1 ...): the pair after (pi, pj), or the end of both loops
LastPair == pj >= Len(pItems) /\ pi + 1 >= Len(pItems)

\* an inner loop that starts over at the first item
NextPairFromStart ==
    IF pj < Len(pItems) THEN <<pi, pj + 1>> ELSE <<pi + 1, 1>>

NextPair ==
    IF pj < Len(pItems) THEN <<pi, pj + 1>> ELSE <<pi + 1, pi + 2>>

HandlerStart ==
    /\ pc = "idle"
    /\ \E items \in PredictBatches, keySet \in BOOLEAN :
        LET clean == cleanItems(items)
            refuse(code) ==
                /\ pResp' = [interactions |-> <<>>, error |-> code]
                /\ pc' = "done"
                /\ UNCHANGED <<pItems, pi, pj>>
        IN  IF Len(items) < 2 THEN refuse("at_least_two_items_required")
            ELSE IF ~keySet THEN refuse("k2_api_key_missing")
            ELSE IF Len(clean) < 2 THEN refuse("at_least_two_items_required")
            ELSE /\ pItems' = clean
                 /\ pi' = 1
                 /\ pj' = 2
                 /\ pc' = "loop"
                 /\ UNCHANGED pResp
    /\ pMode' = "handler"
    /\ pOut' = <<>>
    /\ pLog' = <<>>
    /\ pLast' = "none"
    /\ stored0' = interactions
    /\ UNCHANGED <<pureVars, fetchVars, ingestVars, mixVars, writerVars>>

HandlerPair ==
    /\ pc = "loop"
    /\ pMode = "handler"
    /\ \E reply \in Replies :
        LET out == pOut \o HandlerEntries(pItems[pi], pItems[pj], reply)
        IN  /\ pLog' = Append(pLog, [i |-> pi, j |-> pj, reply |-> reply])
            /\ pLast' = "call"
            /\ IF PairRaises(reply)
               THEN /\ pResp' = [interactions |-> <<>>, error |-> "prediction_failed"]
                    /\ pc' = "done"
                    /\ UNCHANGED <<pOut, pi, pj>>
               ELSE /\ pOut' = out
                    /\ IF LastPair
                       THEN /\ pResp' = [interactions |-> out, error |-> NoError]
                            /\ pc' = "done"
                            /\ UNCHANGED <<pi, pj>>
                       ELSE /\ pi' = NextPair[1]
                            /\ pj' = NextPair[2]
                            /\ UNCHANGED <<pResp, pc>>
    /\ UNCHANGED <<pureVars, fetchVars, ingestVars, mixVars, writerVars, pMode, pItems, stored0>>

\* the handler's reply has gone out; nothing of the batch is kept
PredictRespond ==
    /\ pc = "done"
    /\ pMode = "handler"
    /\ pMode' = "none"
    /\ pc' = "idle"
    /\ pItems' = <<>>
    /\ pi' = 0
    /\ pj' = 0
    /\ pOut' = <<>>
    /\ pLog' = <<>>
    /\ pLast' = "none"
    /\ pResp' = [interactions |-> <<>>, error |-> NoError]
    /\ stored0' = interactions
    /\ UNCHANGED <<pureVars, fetchVars, ingestVars, mixVars, writerVars>>

\* main of predict_interactions_k2.js up to the pair loop (127-180)
ScriptStart ==
    /\ pc = "idle"
    /\ pMode' = "script"
    /\ pItems' = [k \in 1..Len(products) |-> products[k].id]
    /\ pi' = 1
    /\ pj' = 2
    /\ pOut' = <<>>
    /\ pLog' = <<>>
    /\ pLast' = "none"
    /\ stored0' = interactions
    /\ IF Len(products) >= 2
       THEN pc' = "loop" /\ UNCHANGED writerVars
       ELSE /\ pc' = "save"
            /\ wJobs' = [wJobs EXCEPT ![1] = <<>>]
            /\ wIdx' = [wIdx EXCEPT ![1] = 1]
            /\ wPc' = [wPc EXCEPT ![1] = "done"]
            /\ UNCHANGED wStats
    /\ UNCHANGED <<pureVars, fetchVars, ingestVars, mixVars, pResp>>

\* one pair of main's loop up to the rate-limit sleep (182-203)
ScriptPair ==
    /\ pc = "loop"
    /\ pMode = "script"
    /\ \E reply \in Replies :
        /\ pLog' = Append(pLog, [i |-> pi, j |-> pj, reply |-> reply])
        /\ pLast' = "call"
        /\ IF PairRaises(reply)
           THEN pc' = "exited" /\ UNCHANGED pOut
           ELSE /\ pOut' = pOut \o ScriptEntries(pItems[pi], pItems[pj], reply)
                /\ pc' = "sleep"
    /\ UNCHANGED <<pureVars, fetchVars, ingestVars, mixVars, writerVars, pMode, pItems, pi, pj, pResp, stored0>>

\* await sleep(RATE_LIMIT_MS), then the next pair or the save loop (205-217)
ScriptSleep ==
    /\ pc = "sleep"
    /\ IF LastPair
       THEN /\ pc' = "save"
            /\ wJobs' = [wJobs EXCEPT ![1] = pOut]
            /\ wIdx' = [wIdx EXCEPT ![1] = 1]
            /\ wPc' = [wPc EXCEPT ![1] = IF pOut = <<>> THEN "done" ELSE "check"]
            /\ UNCHANGED <<pi, pj, wStats>>
       ELSE /\ pi' = NextPair[1]
            /\ pj' = NextPair[2]
            /\ pc' = "loop"
            /\ UNCHANGED writerVars
    /\ UNCHANGED <<pureVars, fetchVars, ingestVars, mixVars, pMode, pItems, pOut, pLog, pResp, stored0>>
    /\ pLast' = "sleep"

\* the summary after the save loop (244-249)
ScriptFinish ==
    /\ pc = "save"
    /\ wPc[1] = "done"
    /\ pc' = "done"
    /\ UNCHANGED <<pureVars, fetchVars, ingestVars, mixVars, writerVars, pMode, pItems, pi, pj, pOut, pLog, pLast, pResp, stored0>>

ScriptSaveCheck == pc = "save" /\ WriterCheck(1)

ScriptSaveInsert == pc = "save" /\ WriterInsert(1)

\* a catalog of n products and at most one stored interaction between the first two
SeedCatalog(n) ==
    LET byName == SortByName(ProductUniverse)
    IN  [k \in 1..n |-> [id |-> k, name |-> byName[k].name, generic_name |-> byName[k].generic_name]]

InitPredict ==
    /\ \E n \in 0..MaxProducts : products = SeedCatalog(n)
    /\ interactions \in {{}} \cup
          {{r} : r \in {x \in Rows(Len(products)) :
                          x.product_id_1 # x.product_id_2 /\ x.severity = "moderate"
                          /\ {x.product_id_1, x.product_id_2} = {1, 2}}}
    /\ phase = "idle"
    /\ req = IdleReq
    /\ resp = EmptyResp
    /\ storeLog = <<>>
    /\ predictCalled = FALSE
    /\ PredictIdle
    /\ PureIdle
    /\ FetchIdle
    /\ WritersIdle
    /\ IngestIdle

NextPredict ==
    \/ HandlerStart
    \/ HandlerPair
    \/ PredictRespond
    \/ ScriptStart
    \/ ScriptPair
    \/ ScriptSleep
    \/ ScriptSaveCheck
    \/ ScriptSaveInsert
    \/ ScriptFinish

SpecPredict == InitPredict /\ [][NextPredict]_vars

(***************************************************************************)
(* Two loaders running at once against the same table: each works through  *)
(* its own list of rows with the check-then-insert loop above              *)
(* (unnamed/part_002 292-319, 608-646; predict_interactions_k2.js 217).    *)
(***************************************************************************)
JobLengths == {1, 2}

\* the rows a loader may hold for the catalog: any ordered pair of two different products
LoaderRows ==
    {r \in Rows(Len(products)) : r.product_id_1 # r.product_id_2 /\ r.severity = "moderate"}

LoaderJobs ==
    UNION {[1..n -> LoaderRows] : n \in JobLengths}

\* the rows the DrugBank loader collects (part_002 292-319): product_id_1 and product_id_2
\* are two independent findProductId lookups (exact name, else first-word prefix), severity
\* is always 'moderate', and nothing compares the two ids
DrugBankRows == {r \in Rows(Len(products)) : r.severity = "moderate"}

DrugBankJobs ==
    UNION {[1..n -> DrugBankRows] : n \in JobLengths}

InitWriters ==
    /\ products = SeedCatalog(MaxProducts)
    /\ interactions = {}
    /\ phase = "idle"
    /\ req = IdleReq
    /\ resp = EmptyResp
    /\ storeLog = <<>>
    /\ predictCalled = FALSE
    /\ PredictIdle
    /\ PureIdle
    /\ FetchIdle
    /\ IngestIdle
    /\ wJobs \in [Writers -> LoaderJobs \cup DrugBankJobs]
    /\ wIdx = [w \in Writers |-> 1]
    /\ wPc = [w \in Writers |-> "check"]
    /\ wStats = [w \in Writers |-> [loaded |-> 0, skipped |-> 0, errors |-> 0]]

LoaderCheck == \E w \in Writers : WriterCheck(w)

LoaderInsert == \E w \in Writers : WriterInsert(w)

NextWriters ==
    \/ LoaderCheck
    \/ LoaderInsert

SpecWriters == InitWriters /\ [][NextWriters]_vars

(***************************************************************************)
(* The tabular import (server/scripts/ingest.js) into the DSLD tables      *)
(* (unnamed/part_001 131-157), followed at the level of one record.  Of a  *)
(* record only the DSLD ID column is kept: it is what the primary key of   *)
(* products and the foreign key of the other tables look at.               *)
(***************************************************************************)
NullId == 0

\* the first two entries of TABLES; the three after them are shaped like supplement_facts
TABLES == <<"products", "supplement_facts">>

RawIds == {<<>>, <<"1">>, <<"2">>}

\* ingest.js 190-194: a blank value becomes null, Number(value) that is NaN becomes null
toDsldId(value) ==
    IF trim(value) = <<>> THEN NullId
    ELSE IF value = <<"1">> THEN 1
    ELSE IF value = <<"2">> THEN 2
    ELSE NullId

\* one multi-row INSERT: the store takes all of it or rejects all of it
InsertBatchAccepted(table, rows) ==
    IF table = "products"
    THEN /\ NullId \notin Range(rows)
         /\ Range(rows) \cap tProducts = {}
         /\ \A k, m \in 1..Len(rows) : rows[k] = rows[m] => k = m
    ELSE \A k \in 1..Len(rows) : rows[k] = NullId \/ rows[k] \in tProducts

insertBatch(table, rows) ==
    /\ tProducts' = IF table = "products" THEN tProducts \cup Range(rows) ELSE tProducts
    /\ tFacts' = IF table = "products" THEN tFacts ELSE tFacts \o rows

CurrentFile == IF TABLES[iTable] = "products" THEN iSrc.products ELSE iSrc.facts

\* one turn of `for await (const record of parser)` (ingest.js 184-206)
IngestRecord ==
    /\ iPc = "run"
    /\ iPos <= Len(CurrentFile)
    /\ LET rows == Append(iBuf, toDsldId(CurrentFile[iPos]))
       IN  /\ iProcessed' = iProcessed + 1
           /\ iPos' = iPos + 1
           /\ IF Len(rows) < BatchSize
              THEN /\ iBuf' = rows
                   /\ UNCHANGED <<tProducts, tFacts, iPc>>
              ELSE /\ iBuf' = <<>>
                   /\ IF InsertBatchAccepted(TABLES[iTable], rows)
                      THEN insertBatch(TABLES[iTable], rows) /\ UNCHANGED iPc
                      ELSE iPc' = "aborted" /\ UNCHANGED <<tProducts, tFacts>>
    /\ UNCHANGED <<pureVars, fetchVars, mixVars, predictVars, writerVars, iSrc, iRun, iTable, iAfter1>>

\* the flush after the last record (208-210) and the step to the next table (224-235)
IngestEndOfFile ==
    /\ iPc = "run"
    /\ iPos > Len(CurrentFile)
    /\ IF iBuf # <<>> /\ ~InsertBatchAccepted(TABLES[iTable], iBuf)
       THEN /\ iPc' = "aborted"
            /\ UNCHANGED <<tProducts, tFacts, iTable, iPos, iBuf>>
       ELSE /\ insertBatch(TABLES[iTable], iBuf)
            /\ iBuf' = <<>>
            /\ IF iTable < Len(TABLES)
               THEN iTable' = iTable + 1 /\ iPos' = 1 /\ UNCHANGED iPc
               ELSE iPc' = "done" /\ UNCHANGED <<iTable, iPos>>
    /\ UNCHANGED <<pureVars, fetchVars, mixVars, predictVars, writerVars, iSrc, iRun, iProcessed, iAfter1>>

\* the script is started again over the same data directory
IngestRerun ==
    /\ iPc \in {"done", "aborted"}
    /\ iRun = 1
    /\ iRun' = 2
    /\ iAfter1' = <<Cardinality(tProducts), Len(tFacts)>>
    /\ iTable' = 1
    /\ iPos' = 1
    /\ iBuf' = <<>>
    /\ iProcessed' = 0
    /\ iPc' = "run"
    /\ UNCHANGED <<pureVars, fetchVars, mixVars, predictVars, writerVars, tProducts, tFacts, iSrc>>

InitIngest ==
    /\ products = <<>>
    /\ interactions = {}
    /\ phase = "idle"
    /\ req = IdleReq
    /\ resp = EmptyResp
    /\ storeLog = <<>>
    /\ predictCalled = FALSE
    /\ PredictIdle
    /\ PureIdle
    /\ FetchIdle
    /\ WritersIdle
    /\ tProducts = {}
    /\ tFacts = <<>>
    /\ iSrc \in [products : SeqsUpTo(RawIds, MaxRows), facts : SeqsUpTo(RawIds, MaxRows)]
    /\ iRun = 1
    /\ iTable = 1
    /\ iPos = 1
    /\ iBuf = <<>>
    /\ iPc = "run"
    /\ iProcessed = 0
    /\ iAfter1 = <<0, 0>>

NextIngest ==
    \/ IngestRecord
    \/ IngestEndOfFile
    \/ IngestRerun

SpecIngest == InitIngest /\ [][NextIngest]_vars

(***************************************************************************)
(* The normalizers: normalize of the mix page (frontend/src/               *)
(* MixCheckPage.jsx 62-67) and normalize of the server (server/src/        *)
(* index.js 1599-1601).                                                    *)
(***************************************************************************)
NormalizeChars == {"A", "a", "1", "(", "-", " "}

\* the class [a-z0-9]
IsLowerAlnum(c) == c \in {"a", "b", "c", "1"}

\* .replace(/[()]/g, '')
removeParens(s) == SelectSeq(s, LAMBDA c : c \notin {"(", ")"})

\* .replace(/[^a-z0-9]+/g, ' '): every maximal run outside the class becomes one space
RECURSIVE collapseRuns(_, _)
collapseRuns(s, inRun) ==
    IF s = <<>> THEN <<>>
    ELSE IF IsLowerAlnum(Head(s)) THEN <<Head(s)>> \o collapseRuns(Tail(s), FALSE)
    ELSE IF inRun THEN collapseRuns(Tail(s), TRUE)
    ELSE <<" ">> \o collapseRuns(Tail(s), TRUE)

\* a normalizer that trims before it replaces
normalizeFrontendTrimFirst(value) == collapseRuns(removeParens(trim(toLowerCase(value))), FALSE)

normalizeFrontend(value) == trim(collapseRuns(removeParens(toLowerCase(value)), FALSE))

\* String(value || '').toLowerCase().trim()
normalizeServer(value) == trim(toLowerCase(value))

normalizeBy(which, value) ==
    IF which = "frontend" THEN normalizeFrontend(value) ELSE normalizeServer(value)

ApplyNormalize ==
    /\ callee \in {"frontend", "server"}
    /\ calls < 2
    /\ result' = normalizeBy(callee, result)
    /\ calls' = calls + 1
    /\ UNCHANGED <<mixVars, predictVars, writerVars, ingestVars, fetchVars, callee, arg>>

InitNormalize ==
    /\ products = <<>>
    /\ interactions = {}
    /\ phase = "idle"
    /\ req = IdleReq
    /\ resp = EmptyResp
    /\ storeLog = <<>>
    /\ predictCalled = FALSE
    /\ PredictIdle
    /\ WritersIdle
    /\ IngestIdle
    /\ FetchIdle
    /\ callee \in {"frontend", "server"}
    /\ arg \in SeqsUpTo(NormalizeChars, MaxLen)
    /\ result = arg
    /\ calls = 0

NextNormalize == ApplyNormalize

SpecNormalize == InitNormalize /\ [][NextNormalize]_vars

(***************************************************************************)
(* POST /recommendations (server/src/index.js 1443-1590) and its safety    *)
(* heuristic evaluateSafety (1607-1670).                                   *)
(***************************************************************************)
\* list.some(item => keywords.some(keyword => item.includes(keyword)))
includesAny(list, keywords) ==
    \E i \in 1..Len(list) : \E k \in keywords : includes(list[i], k)

When(cond, warnings) == IF cond THEN warnings ELSE <<>>

evaluateSafety(symptoms, medications, supplements, medicalConsiderations, preferences) ==
    LET meds == [i \in 1..Len(medications) |-> normalizeServer(medications[i])]
        supps == [i \in 1..Len(supplements) |-> normalizeServer(supplements[i])]
        combined == meds \o supps
    IN  [blocked |-> FALSE,
         warnings |->
            When("pregnancy" \in medicalConsiderations, <<"pregnancy">>)
            \o When("kidneyLiverIssues" \in medicalConsiderations, <<"kidney_liver">>)
            \o When(includesAny(meds, {<<"warfarin">>, <<"coumadin">>}),
                    <<"warfarin_risk", "warfarin_vitamin_k">>)
            \o When(includesAny(meds, {<<"lithium">>}), <<"lithium_serious", "lithium_otc">>)
            \o When(includesAny(meds, {<<"maoi">>, <<"monoamine oxidase inhibitor">>}),
                    <<"maoi_high_risk", "maoi_screening">>)
            \o When(includesAny(meds, {<<"sertraline">>, <<"fluoxetine">>, <<"escitalopram">>,
                                       <<"citalopram">>, <<"paroxetine">>}), <<"ssri">>)
            \o When("bloodPressureConcerns" \in medicalConsiderations, <<"blood_pressure">>)
            \o When("avoidDrowsiness" \in preferences, <<"avoid_drowsiness">>)
            \o When("avoidStimulants" \in preferences, <<"avoid_stimulants">>)
            \o When(Len(symptoms) = 0 /\ Len(combined) > 0, <<"no_symptoms">>)]

\* a merge that concatenates without removing repeats
DedupeKeepAll(list) == list

\* Array.from(new Set(list)): first occurrences, in order
RECURSIVE Dedupe(_)
Dedupe(list) ==
    IF list = <<>> THEN <<>>
    ELSE LET front == Dedupe(SubSeq(list, 1, Len(list) - 1))
             last == list[Len(list)]
         IN  IF last \in Range(front) THEN front ELSE Append(front, last)

\* the stored interactions among the products whose name contains a medication (1478-1511)
RecommendationInteractions(cleanedMeds, fault) ==
    LET rows == {p \in Range(products) :
                    \E i \in 1..Len(cleanedMeds) :
                        includes(toLowerCase(p.name), toLowerCase(cleanedMeds[i]))}
        found == IF Cardinality(rows) >= 2 THEN LookupRows({p.id : p \in rows}) ELSE {}
    IN  IF Len(cleanedMeds) < 2 THEN [rows |-> {}, log |-> <<>>]
        ELSE IF fault = "store" THEN [rows |-> {}, log |-> <<"select products">>]
        ELSE [rows |-> {[substance_a |-> ProductById(r.product_id_1).name,
                         substance_b |-> ProductById(r.product_id_2).name,
                         severity |-> r.severity] : r \in found},
              log |-> IF Cardinality(rows) >= 2
                      THEN <<"select products", "select interactions">>
                      ELSE <<"select products">>]

\* what the external model can answer to the recommendation prompt
RecommendationReplies ==
    { [kind |-> "network_error", warnings |-> <<>>],
      [kind |-> "not_ok", warnings |-> <<>>],
      [kind |-> "unparsable", warnings |-> <<>>],
      [kind |-> "json", warnings |-> <<>>],
      [kind |-> "json", warnings |-> <<"pregnancy", "model_warning">>] }

\* no request went out
NoReply == [kind |-> "none", warnings |-> <<>>]

MedicationUniverse == { <<"Warfarin">>, <<"a">>, <<"b">>, <<" ">> }

Profiles ==
    [symptoms : {<<>>, <<<<"c">>>>},
     medications : SeqsUpTo(MedicationUniverse, MaxItems),
     supplements : {<<>>, <<<<"a">>>>},
     medicalConsiderations : {{}, {"pregnancy"}, {"kidneyLiverIssues"}, {"bloodPressureConcerns"}},
     preferences : {{}, {"avoidDrowsiness"}, {"avoidStimulants"}}]

RecommendationResponse(profile, keySet, reply, fault) ==
    LET cleanedSymptoms == cleanItems(profile.symptoms)
        cleanedMeds == cleanItems(profile.medications)
        cleanedSupps == cleanItems(profile.supplements)
        safety == evaluateSafety(cleanedSymptoms, cleanedMeds, cleanedSupps,
                                 profile.medicalConsiderations, profile.preferences)
        inter == RecommendationInteractions(cleanedMeds, fault)
        answer(blocked, warnings, source, called, log) ==
            [resp |-> [blocked |-> blocked, warnings |-> warnings, interactions |-> inter.rows,
                       source |-> source, called |-> called, error |-> NoError],
             log |-> log]
    IN  IF Len(cleanedSymptoms) = 0 /\ Len(cleanedMeds) = 0 /\ Len(cleanedSupps) = 0
        THEN [resp |-> [blocked |-> FALSE, warnings |-> <<>>, interactions |-> {},
                        source |-> "none", called |-> FALSE,
                        error |-> "at_least_symptoms_or_meds_required"],
              log |-> <<>>]
        ELSE IF safety.blocked
        THEN [resp |-> [blocked |-> TRUE, warnings |-> safety.warnings, interactions |-> {},
                        source |-> "safety", called |-> FALSE, error |-> NoError],
              log |-> <<>>]
        ELSE IF ~keySet THEN answer(FALSE, safety.warnings, "default", FALSE, inter.log)
        ELSE IF reply.kind # "json" THEN answer(FALSE, safety.warnings, "default", TRUE, inter.log)
        ELSE answer(FALSE, Dedupe(reply.warnings \o safety.warnings), "model", TRUE, inter.log)

PostRecommendations ==
    /\ phase = "idle"
    /\ \E profile \in Profiles, keySet \in BOOLEAN, fault \in {"none", "store"} :
       \E reply \in IF keySet THEN RecommendationReplies ELSE {NoReply} :
        LET out == RecommendationResponse(profile, keySet, reply, fault)
        IN  /\ req' = [route |-> "recommendations", items |-> profile.medications,
                       fault |-> fault, profile |-> profile, keySet |-> keySet, reply |-> reply]
            /\ resp' = out.resp
            /\ storeLog' = out.log
    /\ phase' = "recommended"
    /\ UNCHANGED <<pureVars, fetchVars, ingestVars, products, interactions, predictCalled,
                   predictVars, writerVars>>

RecommendationsRespond ==
    /\ phase = "recommended"
    /\ phase' = "idle"
    /\ req' = IdleReq
    /\ resp' = EmptyResp
    /\ storeLog' = <<>>
    /\ UNCHANGED <<pureVars, fetchVars, ingestVars, products, interactions, predictCalled,
                   predictVars, writerVars>>

NextRecommend ==
    \/ PostRecommendations
    \/ RecommendationsRespond

InitRecommend ==
    /\ products = SeedCatalog(MaxProducts)
    /\ interactions \in {{}} \cup
          {{r} : r \in {x \in Rows(Len(products)) :
                          x.product_id_1 # x.product_id_2 /\ x.severity = "moderate"
                          /\ {x.product_id_1, x.product_id_2} = {1, 2}}}
    /\ phase = "idle"
    /\ req = IdleReq
    /\ resp = EmptyResp
    /\ storeLog = <<>>
    /\ predictCalled = FALSE
    /\ PredictIdle
    /\ PureIdle
    /\ FetchIdle
    /\ WritersIdle
    /\ IngestIdle

SpecRecommend == InitRecommend /\ [][NextRecommend]_vars

(***************************************************************************)
(* The server's handlers and the prediction script against one store,      *)
(* one request or one run at a time.                                       *)
(***************************************************************************)
\* the server takes a request before a batch starts or after the script has exited
StoreRequest == (pc = "idle" \/ (pMode = "script" /\ pc = "done")) /\ NextMix

StorePrediction == phase = "idle" /\ NextPredict

NextStore ==
    \/ StoreRequest
    \/ StorePrediction

SpecStore == InitPredict /\ [][NextStore]_vars

(***************************************************************************)
(* Properties of POST /mix and POST /compare.                              *)
(***************************************************************************)
MixDone(routes) == phase \in {"mixed", "shown"} /\ req.route \in routes

\* the product ids the request's inputs resolved to
ResolvedIds ==
    {resp.resolved[i].product : i \in {k \in 1..Len(resp.resolved) : resp.resolved[k].type = "product"}}

\* C1: whenever POST /mix (Supabase or prefix-match variant) has resolved its inputs and the
\* lookup query went through, every stored interaction row linking two distinct resolved
\* products, in either column order, is in `interactions`, and the browser, having received
\* it, does not go on to the prediction endpoint.
C1_StoredPairReturned ==
    (MixDone({"mix_supabase", "mix_migrate"}) /\ req.fault = "none") =>
        \A r \in interactions :
            (r.product_id_1 # r.product_id_2 /\ {r.product_id_1, r.product_id_2} \subseteq ResolvedIds)
                => /\ FormatRow(r) \in resp.interactions
                   /\ ~predictCalled

C1_Witness ==
    /\ phase = "shown"
    /\ req.route = "mix_migrate"
    /\ ~predictCalled
    /\ \E r \in interactions :
        /\ r.product_id_1 > r.product_id_2
        /\ {r.product_id_1, r.product_id_2} \subseteq ResolvedIds
        /\ FormatRow(r) \in resp.interactions

\* C2: an input equal, case-insensitively, to a stored product name resolves to type product
\* with a product of that name (exact match preferred over any partial match).
C2_ExactMatchPreferred ==
    (MixDone({"mix_supabase", "mix_pg"}) /\ resp.error = NoError) =>
        \A i \in 1..Len(resp.resolved) :
            LET rec == resp.resolved[i]
            IN  (\E p \in Range(products) : toLowerCase(p.name) = toLowerCase(rec.input))
                    => /\ rec.type = "product"
                       /\ toLowerCase(ProductById(rec.product).name) = toLowerCase(rec.input)

\* C3: when the inputs resolve to fewer than 2 distinct product ids, POST /mix issues no
\* interaction query and returns empty `interactions` with no error.
C3_NoQueryBelowTwoProducts ==
    (MixDone({"mix_supabase", "mix_migrate"}) /\ req.fault = "none" /\ Cardinality(ResolvedIds) < 2) =>
        /\ \A k \in 1..Len(storeLog) : storeLog[k] # "select interactions"
        /\ resp.interactions = {}
        /\ resp.error = NoError
        /\ (Len(cleanItems(req.items)) = 1 => Len(resp.resolved) = 1)

\* C9: POST /compare with fewer than 2 product names answers comparison [] with
\* at_least_two_products_required and touches neither the store nor the external model.
C9_CompareNeedsTwoNames ==
    (phase = "compared" /\ Len(cleanItems(req.items)) < 2) =>
        /\ resp.comparison = <<>>
        /\ resp.error = "at_least_two_products_required"
        /\ storeLog = <<>>
        /\ ~predictCalled

\* C10: a failed interaction lookup of POST /mix is reported with an error indicator, never
\* as the plain empty list of a lookup that found nothing.
C10_LookupFailureSurfaced ==
    (MixDone({"mix_supabase", "mix_migrate"}) /\ req.fault = "inter"
        /\ \E k \in 1..Len(storeLog) : storeLog[k] = "select interactions")
        => resp.error # NoError

(***************************************************************************)
(* Properties of batch prediction.                                         *)
(***************************************************************************)
NoInteraction(reply) ==
    reply.kind = "json" /\ (~reply.has_interaction \/ reply.severity = "none")

AllNoInteraction == Len(pLog) >= 1 /\ \A k \in 1..Len(pLog) : NoInteraction(pLog[k].reply)

PredictDone(mode) == pMode = mode /\ pc = "done" /\ Len(pItems) >= 2

NPairs == (Len(pItems) * (Len(pItems) - 1)) \div 2

\* the entries a batch owes to its replies, each pair on its own: one entry per parsed reply
\* in the handler, one per parsed reply reporting an interaction in the script
RECURSIVE Owed(_)
Owed(k) ==
    IF k = 0 THEN <<>>
    ELSE LET e == pLog[k]
             a == pItems[e.i]
             b == pItems[e.j]
         IN  Owed(k - 1) \o
             (IF e.reply.kind # "json" THEN <<>>
              ELSE IF pMode = "handler"
                   THEN <<[ingredient_a |-> a, ingredient_b |-> b, severity |-> e.reply.severity]>>
              ELSE IF NoInteraction(e.reply) THEN <<>>
              ELSE <<[product_id_1 |-> a, product_id_2 |-> b, severity |-> e.reply.severity]>>)

\* C5: a pair whose prediction fails adds no entry, raises nothing out of the batch and leaves
\* the other pairs' entries as they would be without it.
C5_FailedPairSkipped ==
    /\ pc # "exited"
    /\ PredictDone("handler") =>
            /\ pResp.error = NoError
            /\ Len(pLog) = NPairs
            /\ pResp.interactions = Owed(Len(pLog))
    /\ PredictDone("script") =>
            /\ Len(pLog) = NPairs
            /\ pOut = Owed(Len(pLog))

C5_Witness ==
    /\ PredictDone("handler")
    /\ \E k, m \in 1..Len(pLog) :
        /\ k < m
        /\ pLog[k].reply.kind = "timeout"
        /\ pLog[m].reply = Json(TRUE, "mild")
    /\ Len(pResp.interactions) >= 1

(***************************************************************************)
(* Properties of the writers of the interactions table.                    *)
(***************************************************************************)
\* C6: whatever the interleaving of check-then-insert writers and whichever column order each
\* uses, the table holds at most one row for an unordered pair of products.
C6_OneRowPerUnorderedPair ==
    \A r1, r2 \in interactions :
        {r1.product_id_1, r1.product_id_2} = {r2.product_id_1, r2.product_id_2} => r1 = r2

(***************************************************************************)
(* Properties of ingestion.                                                *)
(***************************************************************************)
IngestEnded == iPc \in {"done", "aborted"}

\* C7: running the import a second time over the same source leaves in every destination
\* table the number of rows the first run left there.
C7_RerunKeepsCounts ==
    (iRun = 2 /\ IngestEnded) => <<Cardinality(tProducts), Len(tFacts)>> = iAfter1

\* C8: a rejected insert never aborts the run: the run ends having read every record of every
\* file.
C8_RunNeverAborts ==
    /\ iPc # "aborted"
    /\ iPc = "done" => iProcessed = Len(iSrc.products) + Len(iSrc.facts)

(***************************************************************************)
(* Properties of resolution.                                               *)
(***************************************************************************)
\* C11: for a list of strings and a store that answers, POST /mix returns without error one
\* resolution record per non-blank input, in input order, and against an empty catalog every
\* record has type ingredient.
C11_ResolutionTotal ==
    (MixDone({"mix_supabase", "mix_dsld"}) /\ req.fault = "none") =>
        LET clean == cleanItems(req.items)
        IN  /\ resp.error = NoError
            /\ Len(resp.resolved) = Len(clean)
            /\ \A i \in 1..Len(clean) : resp.resolved[i].input = clean[i]
            /\ products = <<>> => \A i \in 1..Len(clean) : resp.resolved[i].type = "ingredient"

(***************************************************************************)
(* Properties of the normalizers.                                          *)
(***************************************************************************)
\* C12: normalizing is total and idempotent: applying a normalizer to its own output gives
\* that output again, and the empty string yields the empty string.
C12_NormalizeIdempotent ==
    /\ (callee \in {"frontend", "server"} /\ calls = 2) => result = normalizeBy(callee, arg)
    /\ (callee \in {"frontend", "server"} /\ calls >= 1 /\ arg = <<>>) => result = <<>>

C12_Witness ==
    /\ callee = "frontend"
    /\ calls = 2
    /\ arg = <<"(", "A", "-">>
    /\ result = <<"a">>

(***************************************************************************)
(* Properties of POST /recommendations.                                    *)
(***************************************************************************)
\* the profiles the heuristic names as high-risk: pregnancy, kidney or liver issues, or a
\* medication list naming warfarin, lithium or an MAOI
HighRiskProfile ==
    LET w == evaluateSafety(cleanItems(req.profile.symptoms), cleanItems(req.profile.medications),
                            cleanItems(req.profile.supplements),
                            req.profile.medicalConsiderations, req.profile.preferences).warnings
    IN  Range(w) \cap {"pregnancy", "kidney_liver", "warfarin_risk", "lithium_serious",
                       "maoi_high_risk"} # {}

\* C13: when the high-risk heuristic trips, POST /recommendations answers blocked: true with
\* the heuristic's warnings and without calling the external model.
C13_HighRiskBlocked ==
    (phase = "recommended" /\ resp.error = NoError /\ HighRiskProfile) =>
        /\ resp.blocked
        /\ ~resp.called

(***************************************************************************)
(* Properties of the error convention.                                     *)
(***************************************************************************)
StoreFailed ==
    \/ req.fault = "down"
    \/ (req.fault \in {"fetch", "query"} /\ storeLog # <<>>)

EmptyData ==
    IF phase = "compared" THEN resp.comparison = <<>>
    ELSE IF phase = "listed" THEN resp.items = <<>>
    ELSE resp.interactions = {} /\ resp.resolved = <<>>

\* C14: when the store is unreachable or a catalog query fails, POST /mix, POST /compare,
\* GET /products and GET /ingredients answer with empty data and the code
\* database_unavailable; nothing is thrown.
C14_DatabaseUnavailable ==
    (phase \in {"mixed", "shown", "compared", "listed"} /\ StoreFailed) =>
        /\ resp.error = "database_unavailable"
        /\ EmptyData

(***************************************************************************)
(* Properties of ownership of the store.                                   *)
(***************************************************************************)
\* C15: no request to the server changes the products or the interactions table; the
\* interactions table changes only in the save loop of the prediction script.
C15_ResolverAndLookupReadOnly ==
    [][/\ products' = products
       /\ (phase' # phase \/ req' # req) => interactions' = interactions
       /\ interactions' # interactions => (pMode = "script" /\ pc = "save" /\ phase = "idle")]_vars

C15_Witness ==
    /\ phase = "mixed"
    /\ req.route \in {"mix_supabase", "mix_migrate"}
    /\ resp.interactions # {}
    /\ wStats[1].loaded >= 1
    /\ interactions # {}

(***************************************************************************)
(* Properties of the entries POST /mix returns.                            *)
(***************************************************************************)
\* C16: every entry POST /mix returns carries the severity of a stored row, is the only entry
\* for its pair of names, and names two of the inputs, compared case-insensitively.
C16_EntryMatchesInputs ==
    (MixDone({"mix_supabase", "mix_dsld"}) /\ req.fault = "none") =>
        LET clean == cleanItems(req.items)
            inputs == {toLowerCase(clean[i]) : i \in 1..Len(clean)}
        IN  \A e \in resp.interactions :
                /\ \E r \in interactions : r.severity = e.severity
                /\ \A f \in resp.interactions :
                      {f.ingredient_a, f.ingredient_b} = {e.ingredient_a, e.ingredient_b} => f = e
                /\ toLowerCase(e.ingredient_a) \in inputs
                /\ toLowerCase(e.ingredient_b) \in inputs

(***************************************************************************)
(* Properties of the order of evaluation.                                  *)
(***************************************************************************)
\* the position pairs (i, j), i < j, of n items, row by row
RECURSIVE NestedPairs(_, _)
NestedPairs(i, n) ==
    IF i >= n THEN <<>>
    ELSE [k \in 1..(n - i) |-> <<i, i + k>>] \o NestedPairs(i + 1, n)

\* C17: batch prediction calls the external model for the position pairs in nested input
\* order, each pair once, all N(N-1)/2 of them by the end, and the entries of the result
\* come in that order.
C17_NestedPairOrder ==
    (pMode \in {"handler", "script"} /\ Len(pItems) >= 2) =>
        LET order == NestedPairs(1, Len(pItems))
        IN  /\ Len(pLog) <= Len(order)
            /\ \A k \in 1..Len(pLog) : <<pLog[k].i, pLog[k].j>> = order[k]
            /\ pc \in {"save", "done"} => Len(pLog) = Len(order)
            /\ pOut = Owed(Len(pLog))
            /\ PredictDone("handler") => pResp.interactions = pOut

C17_Witness ==
    /\ PredictDone("handler")
    /\ Len(pItems) = 3
    /\ Len(pLog) = 3
    /\ Len(pResp.interactions) = 3
    /\ pResp.interactions[1].ingredient_b # pResp.interactions[2].ingredient_b

\* C18: within a batch, every external call after the first is issued after a delay: never
\* directly after the previous call.
C18_DelayBetweenCalls ==
    [][(Len(pLog') > Len(pLog) /\ Len(pLog) >= 1) => pLast = "sleep"]_vars

(***************************************************************************)
(* The paginated importers (load_dsld_data.js, load_openfda_data 2.js):    *)
(* main fetches pages of 100 and parses every record of a page, then       *)
(* loads what it has parsed.  fPage is pageNum in the DSLD script and      *)
(* skip in the OpenFDA script.                                             *)
(***************************************************************************)
PageCeiling == 10

SkipStep == 100

SkipCeiling == 1000

FetchScripts == {"dsld", "openfda"}

\* what one request brings back: no record (the end of the data), a failure or a timeout
\* (which the fetcher catches and turns into an empty page), records the parser takes, or
\* a page with a record the parser throws on (a hit without _source, a null result)
PageOutcomes == {"empty", "failed", "records", "malformed"}

PageSizes == {1, 100}

NextCounter(script, counter) ==
    IF script = "dsld" THEN counter + 1 ELSE counter + SkipStep

PastCeiling(script, counter) ==
    IF script = "dsld" THEN counter > PageCeiling ELSE counter > SkipCeiling

\* one turn of the while (true) loop: the request, the parse of every record of the page,
\* the counter and the ceiling test; a throw in the parse reaches main's catch, which
\* exits with status 1
FetchPage ==
    /\ fPc = "fetch"
    /\ \E outcome \in PageOutcomes, size \in PageSizes :
          /\ fCalls' = fCalls + 1
          /\ fLast' = outcome
          /\ CASE outcome \in {"empty", "failed"} ->
                    /\ fPc' = "load"
                    /\ UNCHANGED <<fPage, fTotal>>
               [] outcome = "malformed" ->
                    /\ fPc' = "aborted"
                    /\ UNCHANGED <<fPage, fTotal>>
               [] OTHER ->
                    /\ fTotal' = fTotal + size
                    /\ fPage' = NextCounter(fScript, fPage)
                    /\ fPc' = IF PastCeiling(fScript, fPage') THEN "load" ELSE "fetch"
    /\ UNCHANGED <<fScript, mixVars, predictVars, writerVars, ingestVars, pureVars>>

\* loadProducts / loadDrugs on the parsed records
LoadPhase ==
    /\ fPc = "load"
    /\ fPc' = "done"
    /\ UNCHANGED <<fScript, fPage, fTotal, fCalls, fLast, mixVars, predictVars, writerVars,
                   ingestVars, pureVars>>

NextFetch ==
    \/ FetchPage
    \/ LoadPhase

InitFetch ==
    /\ products = <<>>
    /\ interactions = {}
    /\ phase = "idle"
    /\ req = IdleReq
    /\ resp = EmptyResp
    /\ storeLog = <<>>
    /\ predictCalled = FALSE
    /\ PredictIdle
    /\ PureIdle
    /\ WritersIdle
    /\ IngestIdle
    /\ fScript \in FetchScripts
    /\ fPc = "fetch"
    /\ fPage = 0
    /\ fTotal = 0
    /\ fCalls = 0
    /\ fLast = "none"

\* every request resolves, fails or times out after 30 s (axios timeout: 30000), and the
\* records of a page are parsed with a 50 ms timer each, so a turn of the loop that has
\* started ends; the load that follows is awaited by main
SpecFetch ==
    InitFetch /\ [][NextFetch]_vars /\ WF_vars(FetchPage) /\ WF_vars(LoadPhase)

\* C19: whatever the remote API returns, the fetch loop ends, it ends only at an empty
\* page or with the counter past the ceiling, and the load phase follows.
C19_FetchLoopTerminates ==
    /\ [][(fPc = "fetch" /\ fPc' # "fetch") =>
             /\ fPc' = "load"
             /\ (fTotal' = fTotal \/ PastCeiling(fScript, fPage'))]_vars
    /\ <>(fPc \in {"load", "done"})

(***************************************************************************)
(* Parsing the external model's reply.  A reply is a sequence of lexical   *)
(* pieces: the braces, a member key with its colon ("k"), a scalar value   *)
(* ("v"), prose ("t"), white space and the marker </think>.  Three places  *)
(* parse a reply: the /predict-interactions handler (index.js 1252-1291),  *)
(* predictInteraction of the batch script (predict_interactions_k2.js      *)
(* 99-105) and parseK2Json (index.js 1718-1750).  An object has at most    *)
(* one member here and replies carry no markdown fence.                    *)
(***************************************************************************)
MaxReply == 5

ReplyPieces == {"{", "}", "k", "v", "t", " ", "</think>"}

ReplyTexts == SeqsUpTo(ReplyPieces, MaxReply)

\* null / continue: no result for the pair
NoResult == <<>>

\* String.prototype.indexOf, 1-based, 0 for -1
indexOf(s, piece) ==
    IF \E i \in 1..Len(s) : s[i] = piece
    THEN CHOOSE i \in 1..Len(s) : s[i] = piece /\ \A j \in 1..(i - 1) : s[j] # piece
    ELSE 0

\* String.prototype.lastIndexOf, 1-based, 0 for -1
lastIndexOf(s, piece) ==
    IF \E i \in 1..Len(s) : s[i] = piece
    THEN CHOOSE i \in 1..Len(s) : s[i] = piece /\ \A j \in (i + 1)..Len(s) : s[j] # piece
    ELSE 0

\* content.substring(thinkEndIdx + 8) when the marker is there
stripThink(content) ==
    LET thinkEndIdx == indexOf(content, "</think>")
    IN  IF thinkEndIdx # 0 THEN SubSeq(content, thinkEndIdx + 1, Len(content)) ELSE content

\* the for loop over jsonContent from startIdx: the index at which braceCount is 0 again,
\* 0 when the text ends first
RECURSIVE matchingBrace(_, _, _)
matchingBrace(s, i, braceCount) ==
    IF i > Len(s) THEN 0
    ELSE LET count == CASE s[i] = "{" -> braceCount + 1
                        [] s[i] = "}" -> braceCount - 1
                        [] OTHER -> braceCount
         IN  IF count = 0 THEN i ELSE matchingBrace(s, i + 1, count)

\* JSON grammar on the pieces, white space between them skipped
RECURSIVE IsJsonObject(_)
IsJsonObject(s) ==
    /\ Len(s) >= 2
    /\ s[1] = "{"
    /\ s[Len(s)] = "}"
    /\ LET inner == SubSeq(s, 2, Len(s) - 1)
       IN  \/ inner = <<>>
           \/ /\ Len(inner) >= 2
              /\ inner[1] = "k"
              /\ LET value == Tail(inner)
                 IN  value = <<"v">> \/ IsJsonObject(value)

IsJsonValue(s) == s = <<"v">> \/ IsJsonObject(s)

\* JSON.parse: the value, NoResult where it throws
JSONparse(text) ==
    LET pieces == SelectSeq(text, LAMBDA c : c # " ")
    IN  IF IsJsonValue(pieces) THEN pieces ELSE NoResult

\* index.js 1252-1291
handlerParse(content) ==
    LET jsonContent == stripThink(content)
        startIdx == indexOf(jsonContent, "{")
        endIdx == matchingBrace(jsonContent, startIdx, 0)
    IN  IF content = <<>> \/ startIdx = 0 \/ endIdx = 0 THEN NoResult
        ELSE JSONparse(SubSeq(jsonContent, startIdx, endIdx))

\* content.match(/\{[\s\S]*\}/): from the first "{" to the last "}" after it
scriptParse(content) ==
    LET start == indexOf(content, "{")
        end == lastIndexOf(content, "}")
    IN  IF content = <<>> \/ start = 0 \/ end < start THEN NoResult
        ELSE JSONparse(SubSeq(content, start, end))

\* index.js 1718-1750
parseK2Json(raw) ==
    LET text == trim(stripThink(raw))
        start == indexOf(text, "{")
        end == lastIndexOf(text, "}")
    IN  IF raw = <<>> THEN NoResult
        ELSE IF JSONparse(text) # NoResult THEN JSONparse(text)
        ELSE IF start # 0 /\ end > start THEN JSONparse(SubSeq(text, start, end))
        ELSE NoResult

HandlerParse ==
    /\ callee = "none"
    /\ callee' = "handler"
    /\ result' = handlerParse(arg)
    /\ calls' = calls + 1
    /\ UNCHANGED <<mixVars, predictVars, writerVars, ingestVars, fetchVars, arg>>

ScriptParse ==
    /\ callee = "none"
    /\ callee' = "script"
    /\ result' = scriptParse(arg)
    /\ calls' = calls + 1
    /\ UNCHANGED <<mixVars, predictVars, writerVars, ingestVars, fetchVars, arg>>

RecommendationParse ==
    /\ callee = "none"
    /\ callee' = "parseK2Json"
    /\ result' = parseK2Json(arg)
    /\ calls' = calls + 1
    /\ UNCHANGED <<mixVars, predictVars, writerVars, ingestVars, fetchVars, arg>>

NextParse ==
    \/ HandlerParse
    \/ ScriptParse
    \/ RecommendationParse

InitParse ==
    /\ products = <<>>
    /\ interactions = {}
    /\ phase = "idle"
    /\ req = IdleReq
    /\ resp = EmptyResp
    /\ storeLog = <<>>
    /\ predictCalled = FALSE
    /\ PredictIdle
    /\ WritersIdle
    /\ IngestIdle
    /\ FetchIdle
    /\ callee = "none"
    /\ arg \in ReplyTexts
    /\ result = NoResult
    /\ calls = 0

SpecParse == InitParse /\ [][NextParse]_vars

\* C20: every parser of a reply drops the text through the first </think>, takes the
\* text from the first "{" to the "}" at which the brace depth is first back at zero and
\* parses that; without a "{", without a balancing "}" or with text that is no JSON there
\* is no result.
C20_BalancedExtraction ==
    callee \in {"handler", "script", "parseK2Json"} =>
        LET text == stripThink(arg)
            first == indexOf(text, "{")
            close == matchingBrace(text, first, 0)
        IN  result = IF first = 0 \/ close = 0 THEN NoResult
                     ELSE JSONparse(SubSeq(text, first, close))

\* the stored products an input matches under the rule of the variant that answered
MatchesInput(route, p, input) ==
    IF route = "mix_supabase"
    THEN \/ includes(toLowerCase(p.name), toLowerCase(input))
         \/ (p.generic_name # <<>> /\ includes(toLowerCase(p.generic_name), toLowerCase(input)))
    ELSE toLowerCase(p.name) = toLowerCase(input)

\* C21: when several stored products match an input, the resolver takes the one whose name
\* is first in lexicographic order, whatever order the store returns the rows in.
C21_FirstByNameSelected ==
    (MixDone({"mix_supabase", "mix_pg", "mix_migrate"}) /\ resp.error = NoError) =>
        \A i \in 1..Len(resp.resolved) :
            LET rec == resp.resolved[i]
            IN  rec.type = "product" =>
                    \A q \in Range(products) :
                        MatchesInput(req.route, q, rec.input)
                            => ~NameLess(q.name, ProductById(rec.product).name)

\* C22: the interaction lookup of POST /mix returns exactly the stored rows with both
\* endpoints among the product ids the inputs resolved to, in either column order, and no
\* row with an endpoint outside that set.
C22_LookupWithinResolved ==
    (MixDone({"mix_supabase", "mix_migrate"}) /\ req.fault = "none") =>
        resp.interactions =
            {FormatRow(r) : r \in {x \in interactions :
                                     /\ x.product_id_1 \in ResolvedIds
                                     /\ x.product_id_2 \in ResolvedIds}}

(***************************************************************************)
(* determineSeverity of the RxNorm interaction backfill (part_002 484-498).*)
(* A description is a sequence of pieces; each keyword the function looks  *)
(* for is one piece, in lower case or with capitals.                       *)
(***************************************************************************)
DescriptionPieces ==
    {"contraindicated", "avoid", "Avoid", "severe", "SEVERE", "serious", "moderate", "minor",
     "mild", "a", " "}

\* a classifier that tests for moderate before severe
determineSeverityModerateFirst(description) ==
    LET lower == toLowerCase(description)
    IN  IF includes(lower, <<"contraindicated">>) \/ includes(lower, <<"avoid">>)
        THEN "contraindicated"
        ELSE IF includes(lower, <<"moderate">>) THEN "moderate"
        ELSE IF includes(lower, <<"severe">>) \/ includes(lower, <<"serious">>) THEN "severe"
        ELSE IF includes(lower, <<"minor">>) \/ includes(lower, <<"mild">>) THEN "mild"
        ELSE "moderate"

determineSeverity(description) ==
    LET lower == toLowerCase(description)
    IN  IF includes(lower, <<"contraindicated">>) \/ includes(lower, <<"avoid">>)
        THEN "contraindicated"
        ELSE IF includes(lower, <<"severe">>) \/ includes(lower, <<"serious">>) THEN "severe"
        ELSE IF includes(lower, <<"moderate">>) THEN "moderate"
        ELSE IF includes(lower, <<"minor">>) \/ includes(lower, <<"mild">>) THEN "mild"
        ELSE "moderate"

\* getInteractions: severity: determineSeverity(pair.description || '')
ApplySeverity ==
    /\ callee = "none"
    /\ callee' = "determineSeverity"
    /\ result' = <<determineSeverity(arg)>>
    /\ calls' = calls + 1
    /\ UNCHANGED <<mixVars, predictVars, writerVars, ingestVars, fetchVars, arg>>

NextSeverity == ApplySeverity

InitSeverity ==
    /\ products = <<>>
    /\ interactions = {}
    /\ phase = "idle"
    /\ req = IdleReq
    /\ resp = EmptyResp
    /\ storeLog = <<>>
    /\ predictCalled = FALSE
    /\ PredictIdle
    /\ WritersIdle
    /\ IngestIdle
    /\ FetchIdle
    /\ callee = "none"
    /\ arg \in SeqsUpTo(DescriptionPieces, MaxLen)
    /\ result = <<>>
    /\ calls = 0

SpecSeverity == InitSeverity /\ [][NextSeverity]_vars

\* which of the words occur in the lower-cased description
HasWord(description, words) ==
    \E w \in words : \E i \in 1..Len(description) : LowerChar(description[i]) = w

\* C23: the backfill's severity is decided by the first match, over the lower-cased
\* description, of: contraindicated/avoid, severe/serious, moderate, minor/mild; moderate
\* when nothing matches; and it is always a severity the interactions schema accepts.
C23_SeverityByPriority ==
    callee = "determineSeverity" =>
        /\ Len(result) = 1
        /\ result[1] \in SchemaSeverities
        /\ result[1] =
             IF HasWord(arg, {"contraindicated", "avoid"}) THEN "contraindicated"
             ELSE IF HasWord(arg, {"severe", "serious"}) THEN "severe"
             ELSE IF HasWord(arg, {"moderate"}) THEN "moderate"
             ELSE IF HasWord(arg, {"minor", "mild"}) THEN "mild"
             ELSE "moderate"

C23_Witness ==
    /\ callee = "determineSeverity"
    /\ HasWord(arg, {"moderate"})
    /\ HasWord(arg, {"severe"})
    /\ arg # toLowerCase(arg)
    /\ result = <<"severe">>

\* C24: a failed fetch of a page is skipped and the import goes on with the next page: below
\* the ceiling, the fetch phase is never over right after a failed request.
C24_FailedPageSkipped ==
    (fLast = "failed" /\ ~PastCeiling(fScript, fPage)) => fPc = "fetch"

\* C26: with pages of 100 the paginated imports never fetch more than 1,000 records in a run.
C26_AtMostThousandRecords ==
    fScript \in FetchScripts => fTotal <= 1000

\* C25: the tabular import inserts every parsed row exactly once and in file order: the
\* buffer never holds a full batch between records, and when a run is over every row of
\* each file is in its table, once, in the order of the file, with nothing left buffered.
C25_EveryRowOnceInOrder ==
    /\ Len(iBuf) < BatchSize
    /\ (iRun = 1 /\ iPc \in {"done", "aborted"}) =>
          /\ tFacts = [k \in 1..Len(iSrc.facts) |-> toDsldId(iSrc.facts[k])]
          /\ tProducts = {toDsldId(iSrc.products[k]) : k \in 1..Len(iSrc.products)}
          /\ Cardinality(tProducts) = Len(iSrc.products)
          /\ iBuf = <<>>

(***************************************************************************)
(* The load phase of the OpenFDA import (load_openfda_data 2.js 164-253,   *)
(* and the seenNames variant, part_002 829-934).  A fetched record is the  *)
(* product name parseDrug finds in it, <<>> when it finds none.            *)
(***************************************************************************)
DrugNames == {<<>>, <<"a">>, <<"b">>}

\* if (parsed) allDrugs.push(parsed): parseDrug returns null for a record without a name
parsedDrugs(fetched) == SelectSeq(fetched, LAMBDA name : name # <<>>)

\* the for loop of loadDrugs from index i on: <<loaded, skipped, errors>>
RECURSIVE loadDrugs(_, _, _, _, _, _)
loadDrugs(drugs, i, stored, seenNames, rejected, dedupe) ==
    IF i > Len(drugs) THEN <<0, 0, 0>>
    ELSE LET name == drugs[i]
             seen == IF dedupe THEN seenNames \cup {name} ELSE seenNames
             rest(s) == loadDrugs(drugs, i + 1, s, seen, rejected, dedupe)
         IN  IF (dedupe /\ name \in seenNames) \/ name \in stored
             THEN <<rest(stored)[1], rest(stored)[2] + 1, rest(stored)[3]>>
             ELSE IF i \in rejected
             THEN <<rest(stored)[1], rest(stored)[2], rest(stored)[3] + 1>>
             ELSE LET after == rest(stored \cup {name})
                  IN  <<after[1] + 1, after[2], after[3]>>

\* main of load_openfda_data 2.js after the fetch loop
ImportDrugs ==
    /\ callee = "none"
    /\ callee' = "loadDrugs"
    /\ \E stored \in SUBSET (DrugNames \ {<<>>}), rejected \in SUBSET (1..MaxRows) :
          result' = loadDrugs(parsedDrugs(arg), 1, stored, {}, rejected, FALSE)
    /\ calls' = calls + 1
    /\ UNCHANGED <<mixVars, predictVars, writerVars, ingestVars, fetchVars, arg>>

\* main of the seenNames variant
ImportDrugsSeen ==
    /\ callee = "none"
    /\ callee' = "loadDrugsSeen"
    /\ \E stored \in SUBSET (DrugNames \ {<<>>}), rejected \in SUBSET (1..MaxRows) :
          result' = loadDrugs(parsedDrugs(arg), 1, stored, {}, rejected, TRUE)
    /\ calls' = calls + 1
    /\ UNCHANGED <<mixVars, predictVars, writerVars, ingestVars, fetchVars, arg>>

NextImport ==
    \/ ImportDrugs
    \/ ImportDrugsSeen

InitImport ==
    /\ products = <<>>
    /\ interactions = {}
    /\ phase = "idle"
    /\ req = IdleReq
    /\ resp = EmptyResp
    /\ storeLog = <<>>
    /\ predictCalled = FALSE
    /\ PredictIdle
    /\ WritersIdle
    /\ IngestIdle
    /\ FetchIdle
    /\ callee = "none"
    /\ arg \in SeqsUpTo(DrugNames, MaxRows)
    /\ result = <<>>
    /\ calls = 0

SpecImport == InitImport /\ [][NextImport]_vars

\* C27: at the end of a run of the import every fetched record is counted once as loaded,
\* skipped or errored: the three counts add up to the number of fetched records.
C27_EveryRecordCounted ==
    callee \in {"loadDrugs", "loadDrugsSeen"} =>
        result[1] + result[2] + result[3] = Len(arg)

\* C28: no writer stores an interaction row that relates a product to itself.
C28_NoSelfInteraction ==
    \A r \in interactions : r.product_id_1 # r.product_id_2

\* the warnings evaluateSafety produces for the request at hand
SafetyWarnings ==
    evaluateSafety(cleanItems(req.profile.symptoms), cleanItems(req.profile.medications),
                   cleanItems(req.profile.supplements),
                   req.profile.medicalConsiderations, req.profile.preferences).warnings

\* C29: every POST /recommendations response that is neither an error nor blocked, on the
\* model path and on every fallback path, holds each warning evaluateSafety produced for
\* the request, and its warnings list has no string twice.
C29_WarningsKeptOnce ==
    (phase = "recommended" /\ resp.error = NoError /\ ~resp.blocked) =>
        /\ Range(SafetyWarnings) \subseteq Range(resp.warnings)
        /\ \A k, m \in 1..Len(resp.warnings) : resp.warnings[k] = resp.warnings[m] => k = m

C29_Witness ==
    /\ phase = "recommended"
    /\ resp.error = NoError
    /\ resp.source = "model"
    /\ "pregnancy" \in Range(req.reply.warnings)
    /\ "pregnancy" \in Range(SafetyWarnings)
    /\ Len(SafetyWarnings) >= 2
    /\ "model_warning" \in Range(resp.warnings)

(***************************************************************************)
(* parsedrugbankXML (part_002 73-180): the line state machine over the     *)
(* DrugBank export.  A line is the tag it holds; the value of the k-th     *)
(* line, when it is a <drugbank-id> or <name> line, is k, so that a        *)
(* recorded value tells which line it was taken from.  Lines ending in a   *)
(* newline go through the 'data' handler, an unterminated last line        *)
(* through the 'end' handler.                                              *)
(***************************************************************************)
MaxLines == 4

LineKinds ==
    {"<drug>", "</drug>", "<drugbank-id>", "<name>", "<drug-interaction>", "</drug-interaction>"}

\* currentDrug = null
NoDrug == [open |-> FALSE, opened |-> 0, id |-> 0, name |-> 0, interactions |-> <<>>]

\* currentInteraction = null
NoBlock == [open |-> FALSE, id |-> 0, name |-> 0, closed |-> 0]

\* the body of lines.forEach in the 'data' handler, for line k
parseLine(st, line, k) ==
    LET currentDrug == st.drug
        currentInteraction == st.inter
    IN  IF line = "<drug>"
        THEN [st EXCEPT !.drug = [NoDrug EXCEPT !.open = TRUE, !.opened = k]]
        ELSE IF line = "</drug>"
        THEN [st EXCEPT !.drugs = IF currentDrug.open /\ currentDrug.id # 0 /\ currentDrug.name # 0
                                   THEN Append(@, currentDrug) ELSE @,
                        !.drug = NoDrug]
        ELSE IF line = "<drugbank-id>" /\ currentDrug.open
        THEN IF currentDrug.id = 0 THEN [st EXCEPT !.drug.id = k] ELSE st
        ELSE IF line = "<name>" /\ currentDrug.open /\ currentDrug.name = 0
        THEN [st EXCEPT !.drug.name = k]
        ELSE IF line = "<drug-interaction>"
        THEN [st EXCEPT !.inter = [NoBlock EXCEPT !.open = TRUE]]
        ELSE IF line = "</drug-interaction>"
        THEN [st EXCEPT !.drug.interactions =
                            IF currentInteraction.open /\ currentDrug.open
                               /\ currentInteraction.name # 0
                            THEN Append(@, [currentInteraction EXCEPT !.closed = k]) ELSE @,
                        !.inter = NoBlock]
        ELSE IF currentInteraction.open
        THEN IF line = "<drugbank-id>" THEN [st EXCEPT !.inter.id = k]
             ELSE IF line = "<name>" THEN [st EXCEPT !.inter.name = k]
             ELSE st
        ELSE st

\* the body of lines.forEach in the 'end' handler, for the unterminated last line k
parseFinalLine(st, line, k) ==
    IF line = "<drugbank-id>" /\ st.drug.open
    THEN IF st.drug.id = 0 THEN [st EXCEPT !.drug.id = k] ELSE st
    ELSE IF line = "<name>" /\ st.drug.open /\ st.drug.name = 0
    THEN [st EXCEPT !.drug.name = k]
    ELSE st

\* how many of the lines end in a newline
Terminated == IF result.newlineAtEnd THEN Len(arg) ELSE Len(arg) - 1

\* stream.on('data'): the next complete line
ParseLine ==
    /\ callee = "parsedrugbankXML"
    /\ ~result.ended
    /\ calls < Terminated
    /\ result' = parseLine(result, arg[calls + 1], calls + 1)
    /\ calls' = calls + 1
    /\ UNCHANGED <<mixVars, predictVars, writerVars, ingestVars, fetchVars, callee, arg>>

\* stream.on('end'): what is left in the buffer, then resolve(drugs)
EndOfStream ==
    /\ callee = "parsedrugbankXML"
    /\ ~result.ended
    /\ calls >= Terminated
    /\ result' = [(IF calls < Len(arg) THEN parseFinalLine(result, arg[calls + 1], calls + 1)
                   ELSE result) EXCEPT !.ended = TRUE]
    /\ calls' = Len(arg)
    /\ UNCHANGED <<mixVars, predictVars, writerVars, ingestVars, fetchVars, callee, arg>>

NextDrugBank ==
    \/ ParseLine
    \/ EndOfStream

InitDrugBank ==
    /\ products = <<>>
    /\ interactions = {}
    /\ phase = "idle"
    /\ req = IdleReq
    /\ resp = EmptyResp
    /\ storeLog = <<>>
    /\ predictCalled = FALSE
    /\ PredictIdle
    /\ WritersIdle
    /\ IngestIdle
    /\ FetchIdle
    /\ callee = "parsedrugbankXML"
    /\ arg \in SeqsUpTo(LineKinds, MaxLines)
    /\ \E newlineAtEnd \in BOOLEAN :
          /\ (arg = <<>> => newlineAtEnd)
          /\ result = [drug |-> NoDrug, inter |-> NoBlock, drugs |-> <<>>,
                       newlineAtEnd |-> newlineAtEnd, ended |-> FALSE]
    /\ calls = 0

SpecDrugBank == InitDrugBank /\ [][NextDrugBank]_vars

\* line k lies inside a <drug-interaction> block of the file
InsideInteraction(k) ==
    \E j \in 1..(k - 1) :
        /\ arg[j] = "<drug-interaction>"
        /\ \A m \in (j + 1)..(k - 1) : arg[m] # "</drug-interaction>"

\* the drugs emitted so far and the one being read
DrugsInHand ==
    Range(result.drugs) \cup (IF result.drug.open THEN {result.drug} ELSE {})

\* C30: in the DrugBank line parser, for any order of lines, a drug's id and name are
\* never taken from a line inside a <drug-interaction> block; a drug is emitted only with
\* both an id and a name; and an interaction is attached to a drug only if it has a name
\* and was closed while that drug was open.
C30_DrugFieldsFromOwnLines ==
    callee = "parsedrugbankXML" =>
        /\ \A d \in DrugsInHand :
              /\ d.id # 0 => ~InsideInteraction(d.id)
              /\ d.name # 0 => ~InsideInteraction(d.name)
              /\ \A i \in 1..Len(d.interactions) :
                    d.interactions[i].name # 0 /\ d.interactions[i].closed > d.opened
        /\ \A d \in Range(result.drugs) : d.id # 0 /\ d.name # 0

====
